---- MODULE Spec2Model ----
(***************************************************************************)
(* Verification model of three components of the repository:              *)
(*   - git-commitgraph  GraphFile accessors (graph_file/access.rs)        *)
(*   - git-repository   clone::PrepareCheckout (clone/checkout.rs)        *)
(*   - git-attributes   parse::attribute::Lines (parse/attribute.rs)      *)
(* Each component has its own specification (SpecGraph, SpecFan,          *)
(* SpecCheckout, SpecLines) over its own variables.                       *)
(***************************************************************************)
EXTENDS Integers, Sequences, FiniteSets, TLC

(***************************************************************************)
(* Bounds of the model.                                                    *)
(***************************************************************************)
\* width in bits of the model's u32 (the code's u32 has 32)
U32Bits == 4
\* number of distinct leading bytes, i.e. entries of the fan-out table (256 in the code)
NumBytes == 2
\* number of distinct id tails used to build well-formed files
NumTails == 3
\* largest number of commits in a well-formed file of SpecGraph
MaxIds == 3

U32Mod == 2 ^ U32Bits
U32Max == U32Mod - 1

\* lib.rs: (1 << 30) + (1 << 29) + (1 << 28) - 1, at the model's word width
MAX_COMMITS == 2 ^ (U32Bits - 2) + 2 ^ (U32Bits - 3) + 2 ^ (U32Bits - 4) - 1

SHA1_SIZE == 20
COMMIT_DATA_ENTRY_SIZE == SHA1_SIZE + 16

LastByte == NumBytes - 1
LeadingBytes == 0 .. LastByte

\* the loop of lookup is cut after this many probes (only a wrapped midpoint gets there)
MaxProbes == U32Bits + 3

VARIABLES
    \* GraphFile
    fan,                 \* self.fan: cumulative counts per leading byte
    table,               \* the ids the OIDL chunk of self.data holds, as <<leading byte, tail>>
    oid_lookup_offset,   \* self.oid_lookup_offset
    commit_data_offset,  \* self.commit_data_offset
    build,               \* how the build treats integer overflow, once one has happened:
                         \* "debug" panics, "release" wraps
    pc,                  \* which accessor is running
    id,                  \* lookup: the id looked up
    lower_bound,         \* lookup: local
    upper_bound,         \* lookup: local
    bucket,              \* lookup: the bounds the loop started with
    probes,              \* lookup: the positions id_at was called with, in order
    arg_pos,             \* the position an accessor was called with
    ret,                 \* what the accessor returned
    it_kind,             \* iter_ids or iter_commits
    it_next,             \* the iterator's range: next index
    it_end,              \* the iterator's range: end
    yielded,             \* the items the iterator has yielded
    prev_yielded,        \* the items of the previous complete iteration
    \* PrepareCheckout
    repo,                \* self.repo: "Some" or "None"
    bare,                \* whether the repository has no work dir
    alive,               \* whether the PrepareCheckout has not been dropped or consumed yet
    handed,              \* how many times a Repository was returned to the caller
    removed,             \* the directory Drop removed: "no", "work_dir" or "path"
    files_written,       \* whether a checkout has written files to the work dir
    index_written,       \* whether the index file was written
    succeeded,           \* whether main_worktree has returned Ok
    last,                \* the last call on the PrepareCheckout and its result
    calls,               \* the number of calls made
    \* Lines
    buf,                 \* the buffer Lines::new was given
    rest,                \* self.lines: the bytes not split into lines yet
    line_no,             \* self.line_no
    items,               \* the items next() has returned, in order
    ends,                \* per item, the number of bytes of the buffer consumed when it was returned
    lpc                  \* "iter" until next() has returned None

graphVars == <<fan, table, oid_lookup_offset, commit_data_offset, build, pc, id,
               lower_bound, upper_bound, bucket, probes, arg_pos, ret,
               it_kind, it_next, it_end, yielded, prev_yielded>>

checkoutVars == <<repo, bare, alive, handed, removed, files_written, index_written, succeeded,
                  last, calls>>

linesVars == <<buf, rest, line_no, items, ends, lpc>>

vars == <<graphVars, checkoutVars, linesVars>>

(***************************************************************************)
(* Values                                                                  *)
(***************************************************************************)
Panic == [tag |-> "panic"]
Ok(v) == [tag |-> "ok", val |-> v]
None == [tag |-> "None"]
Some(p) == [tag |-> "Some", pos |-> p]
NoRet == [tag |-> "none_yet"]

MinOf(S) == CHOOSE x \in S : \A y \in S : x <= y

\* the SHA1_SIZE bytes of the id with leading byte p[1] and last byte p[2]
IdBytes(p) == [k \in 1 .. SHA1_SIZE |-> IF k = 1 THEN p[1] ELSE IF k = SHA1_SIZE THEN p[2] ELSE 0]

\* byte k (0-based) of the commit record stored for position pos
RecordByte(pos, k) == (7 * pos + 3 * k + 1) % 256

(***************************************************************************)
(* self.data: the file's bytes, as a function of the 0-based offset.      *)
(***************************************************************************)
DataLen == commit_data_offset + Len(table) * COMMIT_DATA_ENTRY_SIZE

DataByte(off) ==
    IF off < oid_lookup_offset THEN 0
    ELSE IF off < oid_lookup_offset + Len(table) * SHA1_SIZE
    THEN IdBytes(table[((off - oid_lookup_offset) \div SHA1_SIZE) + 1])[((off - oid_lookup_offset) % SHA1_SIZE) + 1]
    ELSE IF off < commit_data_offset THEN 0
    ELSE RecordByte((off - commit_data_offset) \div COMMIT_DATA_ENTRY_SIZE,
                    (off - commit_data_offset) % COMMIT_DATA_ENTRY_SIZE)

\* &self.data[start..end]: panics when the range leaves the buffer
Slice(start, end) ==
    IF end > DataLen THEN Panic
    ELSE Ok([k \in 1 .. (end - start) |-> DataByte(start + k - 1)])

(***************************************************************************)
(* GraphFile accessors                                                     *)
(***************************************************************************)
num_commits == fan[LastByte]

id_at_loose(pos) ==
    IF ~(pos <= num_commits) THEN Panic
    ELSE Slice(oid_lookup_offset + (pos * SHA1_SIZE), oid_lookup_offset + (pos * SHA1_SIZE) + SHA1_SIZE)

id_at(pos) ==
    IF ~(pos < num_commits) THEN Panic
    ELSE Slice(oid_lookup_offset + (pos * SHA1_SIZE), oid_lookup_offset + (pos * SHA1_SIZE) + SHA1_SIZE)

commit_data_bytes(pos) ==
    IF ~(pos < num_commits) THEN Panic
    ELSE Slice(commit_data_offset + (pos * COMMIT_DATA_ENTRY_SIZE),
               commit_data_offset + (pos * COMMIT_DATA_ENTRY_SIZE) + COMMIT_DATA_ENTRY_SIZE)

\* CommitData::new(file, pos): reads file.commit_data_bytes(pos) and decodes it
CommitData_new(pos) ==
    LET bytes == commit_data_bytes(pos)
    IN  IF bytes.tag = "panic" THEN Panic
        ELSE Ok([pos |-> pos,
                 root_tree_id |-> SubSeq(bytes.val, 1, SHA1_SIZE),
                 rest |-> SubSeq(bytes.val, SHA1_SIZE + 1, COMMIT_DATA_ENTRY_SIZE)])

commit_at(pos) == CommitData_new(pos)

first_byte(i) == i[1]

\* id.cmp(&mid_sha): lexicographic order of two byte strings of equal length
Cmp_first_byte(a, b) ==
    IF a[1] = b[1] THEN "Equal" ELSE IF a[1] < b[1] THEN "Less" ELSE "Greater"

Cmp(a, b) ==
    LET d == {k \in 1 .. Len(a) : a[k] # b[k]}
    IN  IF d = {} THEN "Equal"
        ELSE IF a[MinOf(d)] < b[MinOf(d)] THEN "Less" ELSE "Greater"

\* let mid = (lower_bound + upper_bound) / 2, in u32 (a release build wraps the sum)
Midpoint_roundup(lo, hi) == ((lo + hi + 1) % U32Mod) \div 2
Midpoint(lo, hi) == ((lo + hi) % U32Mod) \div 2

\* let mut upper_bound = self.fan[first_byte]
InitialUpper_inclusive(b) == fan[b] + 1
InitialUpper(b) == fan[b]

\* let mut lower_bound = if first_byte != 0 { self.fan[first_byte - 1] } else { 0 }
InitialLower(b) == IF b # 0 THEN fan[b - 1] ELSE 0

\* Greater => lower_bound = mid + 1
NextLower_same(mid) == mid
NextLower_skip(mid) == (mid + 2) % U32Mod
NextLower(mid) == (mid + 1) % U32Mod

lookupVars == <<id, lower_bound, upper_bound, bucket, probes>>
iterVars == <<it_kind, it_next, it_end, yielded>>
fileVars == <<fan, table, oid_lookup_offset, commit_data_offset>>

\* the ids a caller looks up: every leading byte, with the tails around the least, the middle
\* and the largest tail of the file (all tails, for a file of few ids)
Targets ==
    LET tails == {table[i][2] : i \in 1 .. Len(table)} \cup {0}
        top == CHOOSE t \in tails : \A u \in tails : u <= t
        near == {0, 1, 2, Len(table), top - 1, top, top + 1}
    IN  {IdBytes(<<b, t>>) : b \in LeadingBytes,
                             t \in {u \in 0 .. (top + 1) : \E v \in near : u - v \in -1 .. 1}}

\* lookup(): lines 66-68, up to the loop
LookupCall(t) ==
    /\ pc = "idle"
    /\ id' = t
    /\ upper_bound' = InitialUpper(first_byte(t))
    /\ lower_bound' = InitialLower(first_byte(t))
    /\ bucket' = [lo |-> InitialLower(first_byte(t)), hi |-> InitialUpper(first_byte(t))]
    /\ probes' = <<>>
    /\ ret' = NoRet
    /\ pc' = "lookup"
    /\ UNCHANGED <<fileVars, build, arg_pos, iterVars, prev_yielded, checkoutVars, linesVars>>

\* the builds that can be running, given the overflow behaviour seen so far
Builds == IF build = "any" THEN {"debug", "release"} ELSE {build}

\* lookup(): one evaluation of the loop condition and, when it holds, of the loop body
LookupStep ==
    /\ pc = "lookup"
    /\ Len(probes) < MaxProbes
    /\ \E b \in (IF lower_bound < upper_bound /\ lower_bound + upper_bound > U32Max THEN Builds ELSE {build}) :
        /\ build' = b
        /\ IF lower_bound < upper_bound
           THEN IF lower_bound + upper_bound > U32Max /\ b = "debug"
                THEN /\ ret' = Panic
                     /\ pc' = "lookup_done"
                     /\ UNCHANGED <<lower_bound, upper_bound, probes>>
                ELSE LET mid == Midpoint(lower_bound, upper_bound)
                         mid_sha == id_at(mid)
                         ord == IF mid_sha.tag = "panic" THEN "none" ELSE Cmp(id, mid_sha.val)
                     IN  /\ probes' = Append(probes, mid)
                         /\ CASE ord = "none" ->
                                    /\ ret' = Panic
                                    /\ pc' = "lookup_done"
                                    /\ UNCHANGED <<lower_bound, upper_bound>>
                              [] ord = "Less" ->
                                    /\ upper_bound' = mid
                                    /\ UNCHANGED <<lower_bound, ret, pc>>
                              [] ord = "Equal" ->
                                    /\ ret' = Some(mid)
                                    /\ pc' = "lookup_done"
                                    /\ UNCHANGED <<lower_bound, upper_bound>>
                              [] ord = "Greater" ->
                                    /\ lower_bound' = NextLower(mid)
                                    /\ UNCHANGED <<upper_bound, ret, pc>>
           ELSE /\ ret' = None
                /\ pc' = "lookup_done"
                /\ UNCHANGED <<lower_bound, upper_bound, probes>>
    /\ UNCHANGED <<fileVars, id, bucket, arg_pos, iterVars, prev_yielded, checkoutVars, linesVars>>

\* the positions a caller passes: the valid ones, the first invalid ones, and the largest u32
Positions == (0 .. (num_commits + 1)) \cup {U32Max}

IdAtCall(pos) ==
    /\ pc = "idle"
    /\ arg_pos' = pos
    /\ ret' = id_at(pos)
    /\ pc' = "id_at_done"
    /\ UNCHANGED <<fileVars, build, lookupVars, iterVars, prev_yielded, checkoutVars, linesVars>>

CommitDataBytesCall(pos) ==
    /\ pc = "idle"
    /\ arg_pos' = pos
    /\ ret' = commit_data_bytes(pos)
    /\ pc' = "commit_data_bytes_done"
    /\ UNCHANGED <<fileVars, build, lookupVars, iterVars, prev_yielded, checkoutVars, linesVars>>

CommitAtCall(pos) ==
    /\ pc = "idle"
    /\ arg_pos' = pos
    /\ ret' = commit_at(pos)
    /\ pc' = "commit_at_done"
    /\ UNCHANGED <<fileVars, build, lookupVars, iterVars, prev_yielded, checkoutVars, linesVars>>

\* the range iter_ids / iter_commits map over
IterRange_inclusive == [start |-> 0, end |-> num_commits + 1]
IterRange == [start |-> 0, end |-> num_commits]

\* iter_ids() / iter_commits(): builds the lazy iterator
IterCall(kind) ==
    /\ pc = "idle"
    /\ it_kind' = kind
    /\ it_next' = IterRange.start
    /\ it_end' = IterRange.end
    /\ yielded' = <<>>
    /\ ret' = NoRet
    /\ pc' = "iter"
    /\ UNCHANGED <<fileVars, build, lookupVars, arg_pos, prev_yielded, checkoutVars, linesVars>>

\* Iterator::next on the mapped range
IterNext ==
    /\ pc = "iter"
    /\ IF it_next < it_end
       THEN LET item == IF it_kind = "ids" THEN id_at(it_next) ELSE commit_at(it_next)
            IN  IF item.tag = "panic"
                THEN /\ ret' = Panic
                     /\ pc' = "iter_done"
                     /\ UNCHANGED <<it_next, yielded>>
                ELSE /\ yielded' = Append(yielded, item.val)
                     /\ it_next' = it_next + 1
                     /\ UNCHANGED <<ret, pc>>
       ELSE /\ ret' = None
            /\ pc' = "iter_done"
            /\ UNCHANGED <<it_next, yielded>>
    /\ UNCHANGED <<fileVars, build, lookupVars, arg_pos, it_kind, it_end, prev_yielded, checkoutVars, linesVars>>

\* the accessor has returned; the caller goes on to its next call on the same file
Return ==
    /\ pc \in {"lookup_done", "id_at_done", "commit_data_bytes_done", "commit_at_done", "iter_done"}
    /\ prev_yielded' = IF pc = "iter_done" /\ ret.tag = "None"
                       THEN [tag |-> "ok", kind |-> it_kind, items |-> yielded]
                       ELSE prev_yielded
    /\ pc' = "idle"
    /\ id' = <<>>
    /\ lower_bound' = 0
    /\ upper_bound' = 0
    /\ bucket' = [lo |-> 0, hi |-> 0]
    /\ probes' = <<>>
    /\ arg_pos' = 0
    /\ ret' = NoRet
    /\ it_kind' = "ids"
    /\ it_next' = 0
    /\ it_end' = 0
    /\ yielded' = <<>>
    /\ UNCHANGED <<fileVars, build, checkoutVars, linesVars>>

(***************************************************************************)
(* Files                                                                   *)
(***************************************************************************)
PairLess(x, y) == x[1] < y[1] \/ (x[1] = y[1] /\ x[2] < y[2])

RECURSIVE SortedSeq(_)
SortedSeq(S) ==
    IF S = {} THEN <<>>
    ELSE LET m == CHOOSE x \in S : \A y \in S : x = y \/ PairLess(x, y)
         IN  <<m>> \o SortedSeq(S \ {m})

Universe == LeadingBytes \X (0 .. (NumTails - 1))

\* Fan-out table of a sorted id table: entry b counts the ids with leading byte <= b
CumulativeFan(t) == [b \in LeadingBytes |-> Cardinality({i \in 1 .. Len(t) : t[i][1] <= b})]

WellFormedTables == {SortedSeq(S) : S \in {T \in SUBSET Universe : Cardinality(T) <= MaxIds}}

\* header (8 bytes) and fan-out chunk precede the OIDL chunk; CDAT follows it
HeaderEnd == 8 + (4 * NumBytes)

InitOps ==
    /\ pc = "idle"
    /\ id = <<>>
    /\ lower_bound = 0
    /\ upper_bound = 0
    /\ bucket = [lo |-> 0, hi |-> 0]
    /\ probes = <<>>
    /\ arg_pos = 0
    /\ ret = NoRet
    /\ it_kind = "ids"
    /\ it_next = 0
    /\ it_end = 0
    /\ yielded = <<>>
    /\ prev_yielded = NoRet

(***************************************************************************)
(* clone::PrepareCheckout                                                  *)
(***************************************************************************)
\* the number of calls made on one PrepareCheckout
MaxCalls == 4

\* what repo.head()?.peel_to_id_in_place().transpose()? evaluates to: an error (FindHead,
\* PeelHeadToId), Ok(None) for an unborn HEAD, or Ok(Some(id))
HeadOutcomes == {"FindHead", "PeelHeadToId", "unborn", "id"}

\* the step after the HEAD lookup that fails, if any; ObjectMissing fails the
\* expect("downloaded from remote")
Failures == {"none", "ObjectMissing", "NoHeadTree", "IndexFromTree", "CheckoutOptions",
             "OpenArcOdb", "IndexCheckout", "WriteIndex"}

MwResult(res, took, files, index, default) ==
    [res |-> res, took |-> took, files |-> files, index |-> index, default |-> default]

\* a main_worktree that takes the repository out before the fallible steps
main_worktree_take_first(head, fail, partial) ==
    IF repo = "None" THEN MwResult("panic", FALSE, FALSE, FALSE, FALSE)
    ELSE IF bare THEN MwResult("BareRepository", TRUE, FALSE, FALSE, FALSE)
    ELSE IF head \in {"FindHead", "PeelHeadToId"} THEN MwResult(head, TRUE, FALSE, FALSE, FALSE)
    ELSE IF head = "unborn" THEN MwResult("Ok", TRUE, FALSE, FALSE, TRUE)
    ELSE IF fail = "ObjectMissing" THEN MwResult("panic", TRUE, FALSE, FALSE, FALSE)
    ELSE IF fail \in {"NoHeadTree", "IndexFromTree", "CheckoutOptions", "OpenArcOdb"}
    THEN MwResult(fail, TRUE, FALSE, FALSE, FALSE)
    ELSE IF fail = "IndexCheckout" THEN MwResult(fail, TRUE, partial, FALSE, FALSE)
    ELSE IF fail = "WriteIndex" THEN MwResult(fail, TRUE, TRUE, FALSE, FALSE)
    ELSE MwResult("Ok", TRUE, TRUE, TRUE, FALSE)

\* main_worktree(): its result, whether it took the repository out of self.repo, whether it
\* wrote files and the index, and whether the Outcome is the default one
main_worktree(head, fail, partial) ==
    IF repo = "None" THEN MwResult("panic", FALSE, FALSE, FALSE, FALSE)
    ELSE IF bare THEN MwResult("BareRepository", FALSE, FALSE, FALSE, FALSE)
    ELSE IF head \in {"FindHead", "PeelHeadToId"} THEN MwResult(head, FALSE, FALSE, FALSE, FALSE)
    ELSE IF head = "unborn" THEN MwResult("Ok", TRUE, FALSE, FALSE, TRUE)
    ELSE IF fail = "ObjectMissing" THEN MwResult("panic", FALSE, FALSE, FALSE, FALSE)
    ELSE IF fail \in {"NoHeadTree", "IndexFromTree", "CheckoutOptions", "OpenArcOdb"}
    THEN MwResult(fail, FALSE, FALSE, FALSE, FALSE)
    ELSE IF fail = "IndexCheckout" THEN MwResult(fail, FALSE, partial, FALSE, FALSE)
    ELSE IF fail = "WriteIndex" THEN MwResult(fail, FALSE, TRUE, FALSE, FALSE)
    ELSE MwResult("Ok", TRUE, TRUE, TRUE, FALSE)

\* Drop::drop on a PrepareCheckout whose self.repo is r: the directory it removes
drop_always(r) == IF bare THEN "path" ELSE "work_dir"
drop(r) == IF r = "Some" THEN (IF bare THEN "path" ELSE "work_dir") ELSE "no"

Call(op, res, head, default, wrote) ==
    [op |-> op, res |-> res, head |-> head, default |-> default, wrote |-> wrote,
     held |-> repo = "Some", prior_op |-> last.op, prior_res |-> last.res]

MainWorktreeCall(head, fail, partial) ==
    /\ alive
    /\ calls < MaxCalls
    /\ LET r == main_worktree(head, fail, partial)
       IN  /\ repo' = IF r.took THEN "None" ELSE repo
           /\ handed' = IF r.took THEN handed + 1 ELSE handed
           /\ files_written' = (files_written \/ r.files)
           /\ index_written' = (index_written \/ r.index)
           /\ succeeded' = (succeeded \/ r.res = "Ok")
           /\ last' = Call("main_worktree", r.res, head, r.default, r.files \/ r.index)
    /\ calls' = calls + 1
    /\ UNCHANGED <<bare, alive, removed, graphVars, linesVars>>

\* repo()
RepoCall ==
    /\ alive
    /\ calls < MaxCalls
    /\ last' = Call("repo", IF repo = "Some" THEN "Ok" ELSE "panic", "-", FALSE, FALSE)
    /\ calls' = calls + 1
    /\ UNCHANGED <<repo, bare, alive, handed, removed, files_written, index_written, succeeded,
                   graphVars, linesVars>>

\* persist(mut self): takes the repository, then self goes out of scope and is dropped
Persist(op) ==
    /\ alive
    /\ calls < MaxCalls
    /\ last' = Call(op, IF repo = "Some" THEN "Ok" ELSE "panic", "-", FALSE, FALSE)
    /\ handed' = IF repo = "Some" THEN handed + 1 ELSE handed
    /\ repo' = "None"
    /\ removed' = drop("None")
    /\ alive' = FALSE
    /\ calls' = calls + 1
    /\ UNCHANGED <<bare, files_written, index_written, succeeded, graphVars, linesVars>>

PersistCall == Persist("persist")

\* From<PrepareCheckout> for Repository
FromCall == Persist("from")

\* the PrepareCheckout goes out of scope
DropCall ==
    /\ alive
    /\ calls < MaxCalls
    /\ last' = Call("drop", "Ok", "-", FALSE, FALSE)
    /\ removed' = drop(repo)
    /\ repo' = "None"
    /\ alive' = FALSE
    /\ calls' = calls + 1
    /\ UNCHANGED <<bare, handed, files_written, index_written, succeeded, graphVars, linesVars>>

InitCheckoutVars ==
    /\ repo = "Some"
    /\ alive = TRUE
    /\ handed = 0
    /\ removed = "no"
    /\ files_written = FALSE
    /\ index_written = FALSE
    /\ succeeded = FALSE
    /\ last = [op |-> "new", res |-> "Ok", head |-> "-", default |-> FALSE, wrote |-> FALSE,
               held |-> TRUE, prior_op |-> "-", prior_res |-> "-"]
    /\ calls = 0

(***************************************************************************)
(* parse::attribute::Lines                                                 *)
(***************************************************************************)
\* the longest buffer, the byte order mark not counted
MaxBuf == 4

\* the bytes of a buffer: a name character, '!', '#', a blank, a line feed, a double quote,
\* and ATTR for the six bytes "[attr]"; BOM is a byte order mark
Alphabet == {"a", "BANG", "HASH", "SP", "NL", "QUOTE", "ATTR"}

BLANKS == {"SP"}

Buffers ==
    LET bodies == UNION {[1 .. n -> Alphabet] : n \in 0 .. MaxBuf}
    IN  bodies \cup {<<"BOM">> \o b : b \in bodies}

Drop(s, n) == SubSeq(s, n + 1, Len(s))

\* the least index of s whose byte is in set, 0 when there is none
FindByteset(s, set) ==
    LET hits == {i \in 1 .. Len(s) : s[i] \in set}
    IN  IF hits = {} THEN 0 ELSE MinOf(hits)

\* unicode_bom::Bom::from(buf).len()
BomLen(b) == IF Len(b) > 0 /\ b[1] = "BOM" THEN 1 ELSE 0

\* bstr lines(): the next line without its terminator, and the bytes after it
NextLine(r) ==
    LET nl == FindByteset(r, {"NL"})
    IN  IF nl = 0 THEN [line |-> r, rest |-> <<>>]
        ELSE [line |-> SubSeq(r, 1, nl - 1), rest |-> Drop(r, nl)]

skip_blanks(line) ==
    LET pos == FindByteset(line, Alphabet \ BLANKS)
    IN  IF pos = 0 THEN line ELSE Drop(line, pos - 1)

\* the bytes an attribute name may hold, of the bytes of the model
attr_valid(attr) == \A i \in 1 .. Len(attr) : attr[i] = "a"

check_attr(attr, line_number) ==
    IF attr_valid(attr) THEN [tag |-> "Ok", val |-> attr]
    ELSE [tag |-> "Err", err |-> "AttributeName", line_number |-> line_number, text |-> attr]

\* git_quote::ansi_c::undo on a line that starts with a double quote: the text up to the
\* closing quote and the bytes consumed, or an error when the quote is not closed
undo(line) ==
    LET close == FindByteset(Drop(line, 1), {"QUOTE"})
    IN  IF close = 0 THEN [tag |-> "Err"]
        ELSE [tag |-> "Ok", unquoted |-> SubSeq(line, 2, close), consumed |-> close + 1]

\* ignore::parse_line: no pattern for an empty line; a leading '!' makes the pattern negative
ignore_parse_line(line) ==
    IF line = <<>> THEN [tag |-> "None"]
    ELSE IF line[1] = "BANG" THEN [tag |-> "Some", pattern |-> Drop(line, 1), negative |-> TRUE]
    ELSE [tag |-> "Some", pattern |-> line, negative |-> FALSE]

is_negative_pattern_never(kind) == FALSE
is_negative_pattern(kind) == IF kind.kind = "Pattern" THEN kind.negative ELSE FALSE

parse_line(line, line_number) ==
    IF line = <<>> THEN [tag |-> "None"]
    ELSE IF line[1] = "QUOTE" /\ undo(line).tag = "Err" THEN [tag |-> "Err", err |-> "Unquote"]
    ELSE LET blank == FindByteset(line, BLANKS)
             pat == IF line[1] = "QUOTE" THEN undo(line).unquoted
                    ELSE IF blank = 0 THEN line ELSE SubSeq(line, 1, blank - 1)
             attrs == IF line[1] = "QUOTE" THEN Drop(line, undo(line).consumed)
                      ELSE IF blank = 0 THEN <<>> ELSE Drop(line, blank - 1)
         IN  IF pat # <<>> /\ pat[1] = "ATTR"
             THEN LET m == check_attr(Drop(pat, 1), line_number)
                  IN  IF m.tag = "Err" THEN m
                      ELSE [tag |-> "Ok", kind |-> [kind |-> "Macro", name |-> m.val],
                            attrs |-> attrs, line_no |-> line_number]
             ELSE LET i == ignore_parse_line(pat)
                  IN  IF i.tag = "None" THEN [tag |-> "None"]
                      ELSE [tag |-> "Ok",
                            kind |-> [kind |-> "Pattern", pattern |-> i.pattern, negative |-> i.negative],
                            attrs |-> attrs, line_no |-> line_number]

\* Lines::next(): the loop over self.lines, up to the first line that yields an item
RECURSIVE lines_next(_, _)
lines_next(r, no) ==
    IF r = <<>> THEN [item |-> [tag |-> "None"], rest |-> r, line_no |-> no]
    ELSE LET l == NextLine(r)
             line == skip_blanks(l.line)
             parsed == parse_line(line, no + 1)
         IN  IF line # <<>> /\ line[1] = "HASH" THEN lines_next(l.rest, no + 1)
             ELSE IF parsed.tag = "None" THEN lines_next(l.rest, no + 1)
             ELSE IF parsed.tag = "Err" THEN [item |-> parsed, rest |-> l.rest, line_no |-> no + 1]
             ELSE IF is_negative_pattern(parsed.kind)
             THEN [item |-> [tag |-> "Err", err |-> "PatternNegation", line_number |-> no + 1,
                             text |-> line],
                   rest |-> l.rest, line_no |-> no + 1]
             ELSE [item |-> parsed, rest |-> l.rest, line_no |-> no + 1]

LinesNext ==
    /\ lpc = "iter"
    /\ LET n == lines_next(rest, line_no)
       IN  /\ rest' = n.rest
           /\ line_no' = n.line_no
           /\ IF n.item.tag = "None"
              THEN /\ lpc' = "done"
                   /\ UNCHANGED <<items, ends>>
              ELSE /\ items' = Append(items, n.item)
                   /\ ends' = Append(ends, Len(buf) - Len(n.rest))
                   /\ UNCHANGED lpc
    /\ UNCHANGED <<buf, graphVars, checkoutVars>>

\* Lines::new(buf)
InitLinesVars ==
    /\ rest = Drop(buf, BomLen(buf))
    /\ line_no = 0
    /\ items = <<>>
    /\ ends = <<>>
    /\ lpc = "iter"

(***************************************************************************)
(* Specifications                                                          *)
(***************************************************************************)
\* the components a specification does not exercise rest in one state
ParkedGraph ==
    /\ table = <<>>
    /\ fan = [b \in LeadingBytes |-> 0]
    /\ oid_lookup_offset = HeaderEnd
    /\ commit_data_offset = HeaderEnd
    /\ build = "any"
    /\ InitOps

ParkedCheckout ==
    /\ bare = FALSE
    /\ InitCheckoutVars

ParkedLines ==
    /\ buf = <<>>
    /\ InitLinesVars

\* a validated file: strictly increasing ids, fan-out their cumulative count by leading byte
InitGraph ==
    /\ table \in WellFormedTables
    /\ fan = CumulativeFan(table)
    /\ oid_lookup_offset = HeaderEnd
    /\ commit_data_offset = HeaderEnd + (Len(table) * SHA1_SIZE)
    /\ build = "any"
    /\ InitOps
    /\ ParkedCheckout
    /\ ParkedLines

NextGraph ==
    \/ \E t \in Targets : LookupCall(t)
    \/ LookupStep
    \/ \E pos \in Positions : IdAtCall(pos)
    \/ \E pos \in Positions : CommitDataBytesCall(pos)
    \/ \E pos \in Positions : CommitAtCall(pos)
    \/ \E kind \in {"ids", "commits"} : IterCall(kind)
    \/ IterNext
    \/ Return

SpecGraph == InitGraph /\ [][NextGraph]_vars

(***************************************************************************)
(* Files with an arbitrary fan-out table over a sorted id table            *)
(***************************************************************************)
\* the values a fan-out entry takes: small ones, the ones around MAX_COMMITS, the largest u32
FanValues == {v \in {0, 1, 2, MAX_COMMITS, U32Max \div 2, (U32Max \div 2) + 1, U32Max} : v >= 0 /\ v <= U32Max}

\* the leading byte of the id at position p: the first bucket whose fan-out entry exceeds p
ByteOfPos(f, p) ==
    LET bs == {b \in LeadingBytes : p < f[b]}
    IN  IF bs = {} THEN LastByte ELSE MinOf(bs)

\* a sorted id table of f[LastByte] ids whose buckets follow f as far as f is monotone
GeneratedTable(f) == [p \in 1 .. f[LastByte] |-> <<ByteOfPos(f, p - 1), (2 * p) - 1>>]

InitFan ==
    /\ fan \in [LeadingBytes -> FanValues]
    /\ table = GeneratedTable(fan)
    /\ oid_lookup_offset = HeaderEnd
    /\ commit_data_offset = HeaderEnd + (Len(table) * SHA1_SIZE)
    /\ build = "any"
    /\ InitOps
    /\ ParkedCheckout
    /\ ParkedLines

NextFan ==
    \/ \E t \in Targets : LookupCall(t)
    \/ LookupStep
    \/ Return

SpecFan == InitFan /\ [][NextFan]_vars

\* a PrepareCheckout right after the clone, over a bare or a non-bare repository
InitCheckout ==
    /\ bare \in BOOLEAN
    /\ InitCheckoutVars
    /\ ParkedGraph
    /\ ParkedLines

NextCheckout ==
    \/ \E head \in HeadOutcomes, fail \in Failures, partial \in BOOLEAN :
          MainWorktreeCall(head, fail, partial)
    \/ RepoCall
    \/ PersistCall
    \/ FromCall
    \/ DropCall

SpecCheckout == InitCheckout /\ [][NextCheckout]_vars

InitLines ==
    /\ buf \in Buffers
    /\ InitLinesVars
    /\ ParkedGraph
    /\ ParkedCheckout

NextLines == LinesNext

SpecLines == InitLines /\ [][NextLines]_vars

(***************************************************************************)
(* Properties of the GraphFile accessors                                   *)
(***************************************************************************)
Present(i) == \E k \in 1 .. Len(table) : IdBytes(table[k]) = i

\* the fan-out bucket of a leading byte, read off the fan-out table: [fan[b-1], fan[b]), fan[-1] = 0
BucketLo(b) == IF b = 0 THEN 0 ELSE fan[b - 1]
BucketHi(b) == fan[b]

\* C1 (round trip): in a file with strictly increasing ids and a cumulative fan-out table,
\* a finished lookup of the id stored at position p, for any p < num_commits(), returned Some(p).
C1_RoundTrip ==
    pc = "lookup_done" =>
        \A p \in 0 .. (num_commits - 1) :
            (id_at(p).tag = "ok" /\ id_at(p).val = id) => ret = Some(p)

C1_Witness ==
    /\ pc = "lookup_done"
    /\ ret = Some(2)
    /\ Len(probes) >= 2
    /\ id_at(2).val = id

\* C2 (negative lookup): in such a file, a lookup of an id the id table does not hold never
\* calls id_at with a position >= num_commits() (no panic), and returns None; when the id's
\* bucket is empty, no id is compared; the lower bound of leading byte 0 is 0.
C2_NegativeLookup ==
    (pc \in {"lookup", "lookup_done"} /\ ~Present(id)) =>
        /\ \A i \in 1 .. Len(probes) : probes[i] < num_commits
        /\ ret.tag # "panic"
        /\ pc = "lookup_done" => ret = None
        /\ BucketLo(first_byte(id)) = BucketHi(first_byte(id)) => probes = <<>>
        /\ first_byte(id) = 0 => bucket.lo = 0

C2_Witness ==
    /\ pc = "lookup_done"
    /\ ~Present(id)
    /\ ret = None
    /\ Len(probes) >= 2
    /\ first_byte(id) = LastByte

\* C3 (soundness, bucket containment): every position probed lies in the bucket
\* [fan[b-1], fan[b]) of the id's leading byte b, and a result Some(p) has id_at(p) = id
\* with p in that bucket.
C3_LookupSound ==
    pc \in {"lookup", "lookup_done"} =>
        /\ \A i \in 1 .. Len(probes) :
              BucketLo(first_byte(id)) <= probes[i] /\ probes[i] < BucketHi(first_byte(id))
        /\ ret.tag = "Some" =>
              /\ id_at(ret.pos) = Ok(id)
              /\ BucketLo(first_byte(id)) <= ret.pos
              /\ ret.pos < BucketHi(first_byte(id))

C3_Witness ==
    /\ pc = "lookup_done"
    /\ ret.tag = "Some"
    /\ first_byte(id) = LastByte
    /\ BucketLo(LastByte) > 0
    /\ Len(probes) >= 2

\* the entry the file stores at position pos of a chunk starting at off with entries of size n
StoredEntry(off, pos, n) == [k \in 1 .. n |-> DataByte(off + (pos * n) + k - 1)]

\* C4 (position bounds): id_at, commit_data_bytes and commit_at panic for every
\* pos >= num_commits() = fan[255]; for pos < num_commits() id_at returns the SHA1_SIZE bytes at
\* oid_lookup_offset + pos * SHA1_SIZE (the pos-th id of the file) and commit_data_bytes the
\* COMMIT_DATA_ENTRY_SIZE bytes at commit_data_offset + pos * COMMIT_DATA_ENTRY_SIZE.
C4_PositionBounds ==
    /\ pc = "id_at_done" =>
          IF arg_pos >= fan[LastByte] THEN ret = Panic
          ELSE /\ ret = Ok(StoredEntry(oid_lookup_offset, arg_pos, SHA1_SIZE))
               /\ ret = Ok(IdBytes(table[arg_pos + 1]))
    /\ pc = "commit_data_bytes_done" =>
          IF arg_pos >= fan[LastByte] THEN ret = Panic
          ELSE /\ ret = Ok(StoredEntry(commit_data_offset, arg_pos, COMMIT_DATA_ENTRY_SIZE))
               /\ ret = Ok([k \in 1 .. COMMIT_DATA_ENTRY_SIZE |-> RecordByte(arg_pos, k - 1)])
    /\ pc = "commit_at_done" =>
          IF arg_pos >= fan[LastByte] THEN ret = Panic
          ELSE ret.tag = "ok" /\ ret.val.pos = arg_pos

C4_Witness ==
    /\ pc = "id_at_done"
    /\ num_commits >= 2
    /\ arg_pos = num_commits
    /\ ret = Panic

\* C5 (iteration): a finished iter_ids / iter_commits yielded exactly num_commits() items, the
\* i-th being id_at(i) / commit_at(i), without panic; ids come in strictly ascending order; a
\* second iteration of the same kind yields the same sequence as the first.
C5_Iteration ==
    /\ pc \in {"iter", "iter_done"} => ret.tag # "panic"
    /\ pc = "iter_done" =>
          /\ Len(yielded) = num_commits
          /\ \A i \in 0 .. (num_commits - 1) :
                yielded[i + 1] = IF it_kind = "ids" THEN id_at(i).val ELSE commit_at(i).val
          /\ it_kind = "ids" =>
                \A i \in 1 .. (Len(yielded) - 1) : Cmp(yielded[i], yielded[i + 1]) = "Less"
          /\ (prev_yielded.tag = "ok" /\ prev_yielded.kind = it_kind) =>
                yielded = prev_yielded.items

C5_Witness ==
    /\ pc = "iter_done"
    /\ it_kind = "ids"
    /\ Len(yielded) >= 3
    /\ prev_yielded.tag = "ok"
    /\ prev_yielded.kind = "ids"

(***************************************************************************)
(* Properties of the bisection over arbitrary fan-out tables               *)
(***************************************************************************)
RECURSIVE Log2Floor(_)
Log2Floor(n) == IF n <= 1 THEN 0 ELSE 1 + Log2Floor(n \div 2)

BucketSize == IF bucket.hi > bucket.lo THEN bucket.hi - bucket.lo ELSE 0

\* the number of ids lookup has compared with: the probes that did not panic
Comparisons == Cardinality({i \in 1 .. Len(probes) : id_at(probes[i]).tag = "ok"})

ComparisonBound == IF BucketSize = 0 THEN 0 ELSE Log2Floor(BucketSize) + 1

\* an iteration of the loop that does not return at least halves upper_bound - lower_bound
Shrinks ==
    (pc = "lookup" /\ pc' = "lookup") =>
        /\ upper_bound' - lower_bound' < upper_bound - lower_bound
        /\ 2 * (upper_bound' - lower_bound') <= upper_bound - lower_bound

FanBounded == \A b \in LeadingBytes : fan[b] <= U32Max \div 2

FanMonotone == \A b \in LeadingBytes : b # 0 => fan[b - 1] <= fan[b]

\* C9 as stated: for every fan-out table, each iteration that does not return at least halves
\* upper_bound - lower_bound, and the comparisons stay within floor(log2(bucket size)) + 1
\* (0 for an empty or inverted bucket).
C9_AnyFanTable ==
    /\ [][Shrinks]_vars
    /\ [](pc \in {"lookup", "lookup_done"} => Comparisons <= ComparisonBound)

\* C9 amended: the same, for every fan-out table whose entries are below half the u32 range
\* (2^31 in the code, which includes every table within MAX_COMMITS); the loop then returns
\* within U32Bits iterations, each of which can be taken (the cut of the model's loop is
\* never reached).
C9_BoundedFanTable ==
    /\ [][FanBounded => Shrinks]_vars
    /\ []((FanBounded /\ pc \in {"lookup", "lookup_done"}) =>
            /\ Comparisons <= ComparisonBound
            /\ Len(probes) <= U32Bits
            /\ pc = "lookup" => ENABLED LookupStep
            /\ BucketSize = 0 => probes = <<>>)

C9_Witness ==
    /\ pc = "lookup_done"
    /\ FanBounded
    /\ BucketSize = U32Max \div 2
    /\ Comparisons = ComparisonBound
    /\ ret = None

\* C10 (no overflow): with num_commits() <= MAX_COMMITS and a non-decreasing fan-out table,
\* lower_bound + upper_bound fits the u32 in every iteration, and lower_bound never exceeds
\* upper_bound.
C10_NoOverflow ==
    (pc = "lookup" /\ num_commits <= MAX_COMMITS /\ FanMonotone) =>
        /\ lower_bound + upper_bound <= U32Max
        /\ lower_bound <= upper_bound

C10_Witness ==
    /\ pc = "lookup"
    /\ num_commits = MAX_COMMITS
    /\ FanMonotone
    /\ probes # <<>>
    /\ lower_bound = upper_bound
    /\ upper_bound = MAX_COMMITS

(***************************************************************************)
(* Properties of PrepareCheckout                                           *)
(***************************************************************************)
ErrorResults == {"BareRepository", "FindHead", "PeelHeadToId"} \cup (Failures \ {"none", "ObjectMissing"})

\* C6 (hand-over): over any sequence of main_worktree, repo, persist and drop, the Repository
\* is returned to the caller at most once; Drop removes the work dir (the path when bare) if
\* and only if the Repository was never returned; after a successful main_worktree, repo()
\* and main_worktree() panic.
C6_HandOver ==
    /\ handed <= 1
    /\ handed = 1 <=> (succeeded \/ (last.op \in {"persist", "from"} /\ last.res = "Ok"))
    /\ handed = 1 => repo = "None"
    /\ alive => removed = "no"
    /\ ~alive => (removed # "no" <=> handed = 0)
    /\ removed # "no" => removed = (IF bare THEN "path" ELSE "work_dir")
    /\ (succeeded /\ last.op \in {"repo", "main_worktree"}
          /\ ~(last.op = "main_worktree" /\ last.res = "Ok")) => last.res = "panic"

C6_Witness ==
    /\ ~alive
    /\ succeeded
    /\ handed = 1
    /\ last.op = "persist"
    /\ last.res = "panic"
    /\ last.prior_op = "repo"
    /\ last.prior_res = "panic"
    /\ removed = "no"

\* what C7 says of a main_worktree that returned an error: the PrepareCheckout still holds
\* the Repository, repo() right after it works, persist() right after it returns it
KeepsRepositoryOnError ==
    /\ (last.op = "main_worktree" /\ last.res \in ErrorResults) =>
          (repo = "Some" /\ alive /\ handed = 0 /\ removed = "no")
    /\ (last.op = "repo" /\ last.prior_op = "main_worktree" /\ last.prior_res \in ErrorResults) =>
          last.res = "Ok"
    /\ (last.op \in {"persist", "from"} /\ last.prior_op = "main_worktree"
          /\ last.prior_res \in ErrorResults) =>
          (last.res = "Ok" /\ handed = 1 /\ removed = "no")

\* the no-op of main_worktree: Ok with the default Outcome, the Repository handed over,
\* nothing checked out, no index written
UnbornNoOp ==
    /\ last.res = "Ok"
    /\ last.default
    /\ ~last.wrote
    /\ handed = 1
    /\ repo = "None"

\* C7 as stated: an error leaves the Repository in place, and whenever HEAD is unborn
\* main_worktree is the no-op that hands the Repository over.
C7_UnbornAlwaysNoOp ==
    /\ KeepsRepositoryOnError
    /\ (last.op = "main_worktree" /\ last.head = "unborn") => UnbornNoOp

\* C7 amended: an error leaves the Repository in place, and when HEAD is unborn, the repository
\* is not bare and the PrepareCheckout still holds it, main_worktree is the no-op that hands
\* the Repository over.
C7_UnbornNoOpWithWorkDir ==
    /\ KeepsRepositoryOnError
    /\ (last.op = "main_worktree" /\ last.head = "unborn" /\ ~bare /\ last.held) => UnbornNoOp

C7_Witness ==
    /\ last.op = "main_worktree"
    /\ last.head = "unborn"
    /\ ~bare
    /\ last.held
    /\ last.prior_op = "main_worktree"
    /\ last.prior_res = "WriteIndex"
    /\ files_written
    /\ handed = 1

(***************************************************************************)
(* Properties of Lines                                                     *)
(***************************************************************************)
RECURSIVE AllLines(_)
AllLines(r) == IF r = <<>> THEN <<>> ELSE <<NextLine(r).line>> \o AllLines(NextLine(r).rest)

\* the lines of the buffer, and the number of lines in its first n bytes
SourceLines == AllLines(Drop(buf, BomLen(buf)))
LinesWithin(n) == Len(AllLines(SubSeq(buf, BomLen(buf) + 1, n)))

\* what a source line is: "skip" (blank, comment, no pattern), "negative", "ok" or "error"
LineClass(l, k) ==
    LET line == skip_blanks(l)
        parsed == parse_line(line, k)
    IN  IF line # <<>> /\ line[1] = "HASH" THEN "skip"
        ELSE IF parsed.tag = "None" THEN "skip"
        ELSE IF parsed.tag = "Err" THEN "error"
        ELSE IF parsed.kind.kind = "Pattern" /\ parsed.kind.negative THEN "negative"
        ELSE "ok"

\* the line number an item reports, 0 when it carries none
Reported(item) ==
    IF item.tag = "Ok" THEN item.line_no
    ELSE IF item.err = "Unquote" THEN 0 ELSE item.line_number

\* C8 (line iteration): no Ok item comes from a line whose pattern is negative; such a line
\* yields Err(PatternNegation); every item that carries a line number reports the 1-based
\* index of its source line, all lines counted; the numbers increase strictly; every line
\* read so far that is not skipped has its item, also after an error.
C8_LineItems ==
    /\ line_no = LinesWithin(Len(buf) - Len(rest))
    /\ lpc = "done" => line_no = Len(SourceLines)
    /\ \A i \in 1 .. Len(items) :
          LET k == LinesWithin(ends[i])
              class == LineClass(SourceLines[k], k)
          IN  /\ Reported(items[i]) \in {0, k}
              /\ items[i].tag = "Ok" =>
                    (class = "ok" /\ Reported(items[i]) = k /\ ~(items[i].kind.kind = "Pattern" /\ items[i].kind.negative))
              /\ class = "negative" <=> (items[i].tag = "Err" /\ items[i].err = "PatternNegation")
              /\ class = "negative" => Reported(items[i]) = k
              /\ i > 1 => LinesWithin(ends[i - 1]) < k
    /\ \A k \in 1 .. line_no :
          LineClass(SourceLines[k], k) # "skip" => \E i \in 1 .. Len(items) : LinesWithin(ends[i]) = k

C8_Witness ==
    /\ Len(items) = 2
    /\ items[1].tag = "Err"
    /\ items[1].err = "PatternNegation"
    /\ items[1].line_number = 2
    /\ items[2].tag = "Ok"
    /\ items[2].line_no = 3
    /\ lpc = "done"

====
